---- MODULE Spec2Model ----
(***************************************************************************)
(* Model of monitor_serial, the fixed-block serial line monitor, in its    *)
(* two variants:                                                           *)
(*   backend     src/backend/serial_debug_test.py      (always logs,       *)
(*               log file held by a `with` block)                          *)
(*   raspberrypi src/raspberrypi/serial_debug_test.py  (logging optional,  *)
(*               log file closed in `finally`)                             *)
(*                                                                         *)
(* Time is counted in deciseconds, the unit of VTIME.  Bytes and           *)
(* characters are their code points.  The serial line, the file system,    *)
(* the clock and the signals are the environment.                          *)
(***************************************************************************)
EXTENDS Integers, Sequences, FiniteSets, TLC

VARIABLES
    variant,        \* "backend" | "raspberrypi": which script runs
    logging,        \* logfile argument given (backend: always)
    hasTermios,     \* backend: HAS_TERMIOS and not Windows
    pc,             \* position of monitor_serial
    exc,            \* exception being unwound: "none" | "Exception" | "KeyboardInterrupt"
    running,        \* the module-level flag
    intHandler,     \* handle_sigint installed for SIGINT
    termHandler,    \* handle_sigint installed for SIGTERM
    serState,       \* ser: "none" | "open" | "closed"
    coalescing,     \* VMIN/VTIME applied to the device
    logState,       \* log_file: "none" | "open" | "closed"
    logBuf,         \* records written to log_file and not yet flushed
    logDisk,        \* records flushed to the file
    console,        \* frame records and idle notices printed
    clock,          \* wall clock, deciseconds
    last_activity,  \* local last_activity
    data,           \* local data: result of the last ser.read(16)
    timestamp_full, \* local timestamp_full of the frame being recorded
    nreads,         \* ser.read(16) calls issued
    budget,         \* reads the environment serves in this run
    script,         \* scripted read results still to come (scenario runs)
    trace,          \* resource events in order: ser_open, log_open, log_close, ser_close
    reported,       \* number of "エラー" reports printed by the except block
    stopPrinted,    \* "モニタリング終了" printed
    exitStatus,     \* process exit status once the process has ended, else -1
    hist            \* history: facts about the run the claims refer to

vars == << variant, logging, hasTermios, pc, exc, running, intHandler,
           termHandler, serState, coalescing, logState, logBuf, logDisk,
           console, clock, last_activity, data, timestamp_full, nreads,
           budget, script, trace, reported, stopPrinted, exitStatus, hist >>

----------------------------------------------------------------------------
(* Program constants *)

ReadSize == 16
VMIN == 16
VTIME == 5
IdleSeconds == 10
DsPerSecond == 10

(* Bounds of the model *)

MaxReads == 3
MaxClock == 215

IdleThreshold == IdleSeconds * DsPerSecond

\* strftime("%Y-%m-%d %H:%M:%S.%f")[:-3] keeps three decimals of the second.
MsPerSecond == 1000

----------------------------------------------------------------------------
(* FrameRenderer: data.hex().upper() and the printable-ASCII line *)

HexDigit(d) == IF d < 10 THEN 48 + d ELSE 97 + (d - 10)

Upper(c) == IF c >= 97 /\ c <= 122 THEN c - 32 ELSE c

Hex(B) == [i \in 1..(2 * Len(B)) |->
             IF i % 2 = 1 THEN HexDigit(B[(i + 1) \div 2] \div 16)
                          ELSE HexDigit(B[i \div 2] % 16)]

\* data.hex() without .upper().
ToHex_Lower(B) == Hex(B)

ToHex(B) == [i \in 1..Len(Hex(B)) |-> Upper(Hex(B)[i])]

\* The printable range taken as 32..127, DEL included.
ToAscii_WithDel(B) == [i \in 1..Len(B) |-> IF 32 <= B[i] /\ B[i] <= 127 THEN B[i] ELSE 46]

ToAscii(B) == [i \in 1..Len(B) |-> IF 32 <= B[i] /\ B[i] <= 126 THEN B[i] ELSE 46]

----------------------------------------------------------------------------
(* Records of the log and the console *)

\* A record keeps the instant it was made at (at, in deciseconds) and the
\* timestamp as it is written (stamp, in milliseconds since the epoch of the
\* model's clock).

\* strftime('%Y-%m-%d %H:%M:%S') rounded up instead of truncated.
SecStamp_RoundUp(t) == ((t + DsPerSecond - 1) \div DsPerSecond) * MsPerSecond

\* strftime('%Y-%m-%d %H:%M:%S'): the fraction of the second is dropped.
SecStamp(t) == (t \div DsPerSecond) * MsPerSecond

\* strftime("%Y-%m-%d %H:%M:%S.%f")[:-3]: truncated to the millisecond.
MsStamp(t) == (t * MsPerSecond) \div DsPerSecond

FrameRecord(B, t) ==
    [kind |-> "frame", at |-> t, stamp |-> MsStamp(t), n |-> Len(B),
     hex |-> ToHex(B), ascii |-> ToAscii(B)]

\* wait_msg carries time.strftime('%H:%M:%S') on the console and in the log.
IdleRecord(t) ==
    [kind |-> "idle", at |-> t, stamp |-> SecStamp(t), n |-> 0,
     hex |-> << >>, ascii |-> << >>]

HeaderRecord(t) ==
    [kind |-> "header", at |-> t, stamp |-> SecStamp(t), n |-> 0,
     hex |-> << >>, ascii |-> << >>]

FooterRecord(t) ==
    [kind |-> "footer", at |-> t, stamp |-> SecStamp(t), n |-> 0,
     hex |-> << >>, ascii |-> << >>]

\* The console lines carry ts = time.strftime("%H:%M:%S").
ConsoleFrame(B, t) == [FrameRecord(B, t) EXCEPT !.stamp = SecStamp(t)]

ConsoleIdle(t) == IdleRecord(t)

----------------------------------------------------------------------------
(* Groups of variables *)

cfgVars == << variant, logging, hasTermios, budget >>
sigVars == << running, intHandler, termHandler >>
serVars == << serState, coalescing >>
logVars == << logState, logBuf, logDisk >>
locVars == << data, timestamp_full >>
outVars == << console, reported, stopPrinted, exitStatus >>

----------------------------------------------------------------------------
(* What the serial line can deliver *)

Partial == << 72, 0 >>
Full16  == [i \in 1..ReadSize |-> 64 + i]
Frames  == { Partial, Full16 }

\* With VMIN/VTIME applied a read returns 0..16 bytes; without it ser.read(16)
\* with timeout=None returns only a full block.
ReadResults == IF coalescing THEN { << >> } \cup Frames
                             ELSE { f \in Frames : Len(f) = ReadSize }

\* Amounts of time that pass while the monitor is at one position: exactly
\* the idle threshold, and one silence timeout more.
TickSteps == { IdleThreshold, IdleThreshold + VTIME }

\* Positions where time passes: before a statement that reads the clock, and
\* in the blocking read.
TickPcs == { "init_activity", "read", "frame_activity", "idle_msg", "idle_activity" }

----------------------------------------------------------------------------
(* Control flow of try / with / except / finally *)

WithPcs == { "header", "while", "read", "frame_print", "frame_log",
             "frame_activity", "idle_check", "idle_msg", "idle_log",
             "idle_activity", "footer" }

\* The finally block without its log_file.close().
FinallyEntry_SerOnly == "fin_ser"

FinallyEntry == IF variant = "raspberrypi" THEN "fin_log" ELSE "fin_ser"

\* The try statement without its except clause.
Handler_NoExcept(p, e) ==
    IF variant = "backend" /\ p \in WithPcs THEN "with_exit" ELSE FinallyEntry

\* Where an exception raised at position p goes first.
Handler(p, e) ==
    IF variant = "backend" /\ p \in WithPcs THEN "with_exit"
    ELSE IF e = "Exception" THEN "except"
    ELSE FinallyEntry

Raise(e) == /\ exc' = e
            /\ pc' = Handler(pc, e)

Stopped == pc \in { "done", "crashed", "killed" }

----------------------------------------------------------------------------
(* The guards of the loop *)

\* `while True:` in place of `while running:`.
LoopContinues_Always == TRUE

LoopContinues == running

\* The notice without its threshold test.
IdleDue_Always(now, la) == TRUE

\* `>=` in place of `>`.
IdleDue_AtLeast(now, la) == now - la >= IdleThreshold

IdleDue(now, la) == now - la > IdleThreshold

\* `last_activity = time.time()` after a frame, indented under `if log_file:`.
ActivityAfterFrame_IfLogged(now, la) == IF logState = "open" THEN now ELSE la

ActivityAfterFrame(now, la) == now

\* The idle branch without its `last_activity = time.time()`.
ActivityAfterIdle_Kept(now, la) == la

ActivityAfterIdle(now, la) == now

----------------------------------------------------------------------------
(* Initial states *)

NoHist == [ openFailed        |-> FALSE,
            observed          |-> FALSE,
            readsAfterCancel  |-> 0,
            readsAfterObserved |-> 0,
            loopStartAt       |-> -1,
            writeFailedFrame  |-> 0,
            readsAtFail       |-> 0,
            consoleAtFail     |-> 0,
            framesRead        |-> 0,
            frames            |-> << >>,
            readFailed        |-> FALSE,
            readsAtReadFail   |-> 0,
            consoleAtReadFail |-> 0,
            logAtReadFail     |-> 0,
            cancelAt          |-> -1,
            calls             |-> 1,
            activity          |-> << >>,
            script0           |-> << >>,
            fault             |-> "none",
            first             |-> << >> ]

InitLocals ==
    /\ pc = "open_ser"
    /\ exc = "none"
    /\ running = TRUE
    /\ intHandler = FALSE
    /\ termHandler = FALSE
    /\ serState = "none"
    /\ coalescing = FALSE
    /\ logState = "none"
    /\ logBuf = << >>
    /\ logDisk = << >>
    /\ console = << >>
    /\ clock = 0
    /\ last_activity = 0
    /\ data = << >>
    /\ timestamp_full = 0
    /\ nreads = 0
    /\ trace = << >>
    /\ reported = 0
    /\ stopPrinted = FALSE
    /\ exitStatus = -1

InitCommon == InitLocals /\ hist = NoHist

Configs ==
    { [v |-> "backend",     l |-> TRUE,  t |-> TRUE ],
      [v |-> "backend",     l |-> TRUE,  t |-> FALSE],
      [v |-> "raspberrypi", l |-> TRUE,  t |-> TRUE ],
      [v |-> "raspberrypi", l |-> FALSE, t |-> TRUE ] }

Init ==
    /\ \E c \in Configs : /\ variant = c.v
                          /\ logging = c.l
                          /\ hasTermios = c.t
    /\ budget = MaxReads
    /\ script = << >>
    /\ InitCommon

----------------------------------------------------------------------------
(* STARTING: open the device, configure it, install the handlers *)

\* serial.Serial(...) succeeds.
OpenSerOk ==
    /\ pc = "open_ser"
    /\ serState' = "open"
    /\ trace' = Append(trace, "ser_open")
    /\ pc' = "configure"
    /\ UNCHANGED << cfgVars, sigVars, logVars, locVars, outVars, exc,
                    coalescing, clock, last_activity, nreads, script, hist >>

\* serial.Serial(...) raises: the path is missing, busy or denied.
OpenSerFail ==
    /\ pc = "open_ser"
    /\ Raise("Exception")
    /\ hist' = [hist EXCEPT !.openFailed = TRUE]
    /\ UNCHANGED << cfgVars, sigVars, serVars, logVars, locVars, outVars,
                    clock, last_activity, nreads, script, trace >>

\* VMIN/VTIME are applied when termios is there, and the banner is printed.
ConfigureOk ==
    /\ pc = "configure"
    /\ coalescing' = (variant = "raspberrypi" \/ hasTermios)
    /\ pc' = "install_int"
    /\ UNCHANGED << cfgVars, sigVars, serState, logVars, locVars, outVars, exc,
                    clock, last_activity, nreads, script, trace, hist >>

\* tcgetattr / tcsetattr raises termios.error.
ConfigureFail ==
    /\ pc = "configure"
    /\ variant = "raspberrypi" \/ hasTermios
    /\ Raise("Exception")
    /\ UNCHANGED << cfgVars, sigVars, serVars, logVars, locVars, outVars,
                    clock, last_activity, nreads, script, trace, hist >>

\* signal.signal(signal.SIGINT, handle_sigint)
InstallInt ==
    /\ pc = "install_int"
    /\ intHandler' = TRUE
    /\ pc' = "install_term"
    /\ UNCHANGED << cfgVars, running, termHandler, serVars, logVars, locVars,
                    outVars, exc, clock, last_activity, nreads, script, trace,
                    hist >>

\* signal.signal(signal.SIGTERM, handle_sigint)
InstallTerm ==
    /\ pc = "install_term"
    /\ termHandler' = TRUE
    /\ pc' = "init_activity"
    /\ UNCHANGED << cfgVars, running, intHandler, serVars, logVars, locVars,
                    outVars, exc, clock, last_activity, nreads, script, trace,
                    hist >>

\* last_activity = time.time()
InitActivity ==
    /\ pc = "init_activity"
    /\ last_activity' = clock
    /\ hist' = [hist EXCEPT !.loopStartAt = clock,
                            !.activity = Append(@, clock)]
    /\ pc' = "open_log"
    /\ UNCHANGED << cfgVars, sigVars, serVars, logVars, locVars, outVars, exc,
                    clock, nreads, script, trace >>

\* open(log_path, 'w') succeeds, or no log was asked for.
OpenLogOk ==
    /\ pc = "open_log"
    /\ IF logging
          THEN /\ logState' = "open"
               /\ trace' = Append(trace, "log_open")
               /\ pc' = "header"
          ELSE /\ UNCHANGED << logState, trace >>
               /\ pc' = "while"
    /\ UNCHANGED << cfgVars, sigVars, serVars, logBuf, logDisk, locVars,
                    outVars, exc, clock, last_activity, nreads, script, hist >>

\* open(log_path, 'w') raises.
OpenLogFail ==
    /\ pc = "open_log"
    /\ logging
    /\ exc' = "Exception"
    /\ pc' = "except"
    /\ UNCHANGED << cfgVars, sigVars, serVars, logVars, locVars, outVars,
                    clock, last_activity, nreads, script, trace, hist >>

\* The header lines are written and flushed.
HeaderOk ==
    /\ pc = "header"
    /\ logDisk' = logDisk \o logBuf \o << HeaderRecord(clock) >>
    /\ logBuf' = << >>
    /\ pc' = "while"
    /\ UNCHANGED << cfgVars, sigVars, serVars, logState, locVars, outVars, exc,
                    clock, last_activity, nreads, script, trace, hist >>

\* The flush of the header raises: the lines stay in the buffer.
HeaderFail ==
    /\ pc = "header"
    /\ logBuf' = Append(logBuf, HeaderRecord(clock))
    /\ Raise("Exception")
    /\ UNCHANGED << cfgVars, sigVars, serVars, logState, logDisk, locVars,
                    outVars, clock, last_activity, nreads, script, trace, hist >>

----------------------------------------------------------------------------
(* RUNNING: the read loop *)

\* while running: the flag is true, the body is entered and ser.read(16) called.
WhileContinue ==
    /\ pc = "while"
    /\ LoopContinues
    /\ nreads < budget
    /\ nreads' = nreads + 1
    /\ hist' = [hist EXCEPT !.readsAfterObserved =
                                IF hist.observed THEN @ + 1 ELSE @]
    /\ pc' = "read"
    /\ UNCHANGED << cfgVars, sigVars, serVars, logVars, locVars, outVars, exc,
                    clock, last_activity, script, trace >>

\* while running: the flag is false, the loop is left.
WhileExit ==
    /\ pc = "while"
    /\ ~LoopContinues
    /\ hist' = [hist EXCEPT !.observed = TRUE]
    /\ pc' = IF variant = "backend" THEN "footer" ELSE "stop_msg"
    /\ UNCHANGED << cfgVars, sigVars, serVars, logVars, locVars, outVars, exc,
                    clock, last_activity, nreads, script, trace >>

\* The flag tested once more between the read and the handling of its result.
ReadReturn_DropOnCancel(d, dur) ==
    /\ pc = "read"
    /\ data' = d
    /\ clock' = clock + dur
    /\ hist' = [hist EXCEPT !.readsAfterCancel = IF running THEN @ ELSE @ + 1,
                            !.framesRead = IF d # << >> THEN @ + 1 ELSE @,
                            !.frames = IF d # << >> THEN Append(@, d) ELSE @]
    /\ pc' = IF ~running THEN "while"
             ELSE IF d # << >> THEN "frame_print" ELSE "idle_check"
    /\ UNCHANGED << cfgVars, sigVars, serVars, logVars, timestamp_full,
                    outVars, exc, last_activity, nreads, trace >>

\* ser.read(16) returns d after dur deciseconds.
ReadReturn(d, dur) ==
    /\ pc = "read"
    /\ data' = d
    /\ clock' = clock + dur
    /\ hist' = [hist EXCEPT !.readsAfterCancel = IF running THEN @ ELSE @ + 1,
                            !.framesRead = IF d # << >> THEN @ + 1 ELSE @,
                            !.frames = IF d # << >> THEN Append(@, d) ELSE @]
    /\ pc' = IF d # << >> THEN "frame_print" ELSE "idle_check"
    /\ UNCHANGED << cfgVars, sigVars, serVars, logVars, timestamp_full,
                    outVars, exc, last_activity, nreads, trace >>

ReadOk ==
    /\ \E d \in ReadResults : ReadReturn(d, 0)
    /\ UNCHANGED script

\* The transport error caught inside the loop, which then goes on.
ReadFail_Swallowed ==
    /\ pc = "read"
    /\ pc' = "while"
    /\ hist' = [hist EXCEPT !.readFailed = TRUE,
                            !.readsAtReadFail = nreads,
                            !.consoleAtReadFail = Len(console),
                            !.logAtReadFail = Len(logDisk) + Len(logBuf)]
    /\ UNCHANGED << cfgVars, sigVars, serVars, logVars, locVars, outVars, exc,
                    clock, last_activity, nreads, script, trace >>

\* ser.read(16) raises a transport error.
ReadFail ==
    /\ pc = "read"
    /\ Raise("Exception")
    /\ hist' = [hist EXCEPT !.readFailed = TRUE,
                            !.readsAtReadFail = nreads,
                            !.consoleAtReadFail = Len(console),
                            !.logAtReadFail = Len(logDisk) + Len(logBuf)]
    /\ UNCHANGED << cfgVars, sigVars, serVars, logVars, locVars, outVars,
                    clock, last_activity, nreads, script, trace >>

\* data is not empty: render it and print the frame record.
FramePrint ==
    /\ pc = "frame_print"
    /\ timestamp_full' = clock
    /\ console' = Append(console, ConsoleFrame(data, clock))
    /\ pc' = IF variant = "backend" \/ logState = "open"
                THEN "frame_log" ELSE "frame_activity"
    /\ UNCHANGED << cfgVars, sigVars, serVars, logVars, data, reported,
                    stopPrinted, exitStatus, exc, clock, last_activity, nreads,
                    script, trace, hist >>

\* Only full blocks are recorded: a partial block is dropped.
FrameLogOk_FullOnly ==
    /\ pc = "frame_log"
    /\ logDisk' = logDisk \o logBuf \o
                     (IF Len(data) = ReadSize
                         THEN << FrameRecord(data, timestamp_full) >> ELSE << >>)
    /\ logBuf' = << >>
    /\ pc' = "frame_activity"
    /\ UNCHANGED << cfgVars, sigVars, serVars, logState, locVars, outVars, exc,
                    clock, last_activity, nreads, script, trace, hist >>

\* The frame record written without log_file.flush().
FrameLogOk_NoFlush ==
    /\ pc = "frame_log"
    /\ logBuf' = Append(logBuf, FrameRecord(data, timestamp_full))
    /\ pc' = "frame_activity"
    /\ UNCHANGED << cfgVars, sigVars, serVars, logState, logDisk, locVars,
                    outVars, exc, clock, last_activity, nreads, script, trace,
                    hist >>

\* The frame record is written to the log and flushed.
FrameLogOk ==
    /\ pc = "frame_log"
    /\ logDisk' = logDisk \o logBuf \o << FrameRecord(data, timestamp_full) >>
    /\ logBuf' = << >>
    /\ pc' = "frame_activity"
    /\ UNCHANGED << cfgVars, sigVars, serVars, logState, locVars, outVars, exc,
                    clock, last_activity, nreads, script, trace, hist >>

\* The flush of the frame record raises: the record stays in the buffer.
FrameLogFail ==
    /\ pc = "frame_log"
    /\ logBuf' = Append(logBuf, FrameRecord(data, timestamp_full))
    /\ Raise("Exception")
    /\ hist' = [hist EXCEPT !.writeFailedFrame = hist.framesRead,
                            !.readsAtFail = nreads,
                            !.consoleAtFail = Len(console)]
    /\ UNCHANGED << cfgVars, sigVars, serVars, logState, logDisk, locVars,
                    outVars, clock, last_activity, nreads, script, trace >>

\* last_activity = time.time() after a frame
FrameActivity ==
    /\ pc = "frame_activity"
    /\ last_activity' = ActivityAfterFrame(clock, last_activity)
    /\ hist' = [hist EXCEPT !.activity =
                                Append(@, ActivityAfterFrame(clock, last_activity))]
    /\ pc' = "while"
    /\ UNCHANGED << cfgVars, sigVars, serVars, logVars, locVars, outVars, exc,
                    clock, nreads, script, trace >>

\* data is empty: if time.time() - last_activity > 10
IdleCheck ==
    /\ pc = "idle_check"
    /\ pc' = IF IdleDue(clock, last_activity) THEN "idle_msg" ELSE "while"
    /\ UNCHANGED << cfgVars, sigVars, serVars, logVars, locVars, outVars, exc,
                    clock, last_activity, nreads, script, trace, hist >>

\* wait_msg is built and printed.
IdleMsg ==
    /\ pc = "idle_msg"
    /\ timestamp_full' = clock
    /\ console' = Append(console, ConsoleIdle(clock))
    /\ pc' = IF variant = "backend" \/ logState = "open"
                THEN "idle_log" ELSE "idle_activity"
    /\ UNCHANGED << cfgVars, sigVars, serVars, logVars, data, reported,
                    stopPrinted, exitStatus, exc, clock, last_activity, nreads,
                    script, trace, hist >>

\* wait_msg is printed but not written to the log.
IdleLogOk_Skipped ==
    /\ pc = "idle_log"
    /\ pc' = "idle_activity"
    /\ UNCHANGED << cfgVars, sigVars, serVars, logVars, locVars, outVars, exc,
                    clock, last_activity, nreads, script, trace, hist >>

\* wait_msg is written to the log and flushed.
IdleLogOk ==
    /\ pc = "idle_log"
    /\ logDisk' = logDisk \o logBuf \o << IdleRecord(timestamp_full) >>
    /\ logBuf' = << >>
    /\ pc' = "idle_activity"
    /\ UNCHANGED << cfgVars, sigVars, serVars, logState, locVars, outVars, exc,
                    clock, last_activity, nreads, script, trace, hist >>

\* The flush of wait_msg raises.
IdleLogFail ==
    /\ pc = "idle_log"
    /\ logBuf' = Append(logBuf, IdleRecord(timestamp_full))
    /\ Raise("Exception")
    /\ UNCHANGED << cfgVars, sigVars, serVars, logState, logDisk, locVars,
                    outVars, clock, last_activity, nreads, script, trace, hist >>

\* last_activity = time.time() after an idle notice
IdleActivity ==
    /\ pc = "idle_activity"
    /\ last_activity' = ActivityAfterIdle(clock, last_activity)
    /\ hist' = [hist EXCEPT !.activity =
                                Append(@, ActivityAfterIdle(clock, last_activity))]
    /\ pc' = "while"
    /\ UNCHANGED << cfgVars, sigVars, serVars, logVars, locVars, outVars, exc,
                    clock, nreads, script, trace >>

----------------------------------------------------------------------------
(* STOPPING and STOPPED: footer, except, finally *)

\* print("モニタリング終了")
StopMsg ==
    /\ pc = "stop_msg"
    /\ stopPrinted' = TRUE
    /\ pc' = IF variant = "raspberrypi" /\ logState = "open"
                THEN "footer" ELSE FinallyEntry
    /\ UNCHANGED << cfgVars, sigVars, serVars, logVars, locVars, console,
                    reported, exitStatus, exc, clock, last_activity, nreads,
                    script, trace, hist >>

\* The footer lines are written a second time after the first.
Footer_Twice ==
    /\ pc = "footer"
    /\ logBuf' = logBuf \o << FooterRecord(clock), FooterRecord(clock) >>
    /\ pc' = IF variant = "backend" THEN "with_exit" ELSE FinallyEntry
    /\ UNCHANGED << cfgVars, sigVars, serVars, logState, logDisk, locVars,
                    outVars, exc, clock, last_activity, nreads, script, trace,
                    hist >>

\* The three footer lines are written; nothing flushes them here.
Footer ==
    /\ pc = "footer"
    /\ logBuf' = Append(logBuf, FooterRecord(clock))
    /\ pc' = IF variant = "backend" THEN "with_exit" ELSE FinallyEntry
    /\ UNCHANGED << cfgVars, sigVars, serVars, logState, logDisk, locVars,
                    outVars, exc, clock, last_activity, nreads, script, trace,
                    hist >>

\* backend: the with block is left and closes the file; the buffer reaches it.
WithExitOk ==
    /\ pc = "with_exit"
    /\ logState' = "closed"
    /\ logDisk' = logDisk \o logBuf
    /\ logBuf' = << >>
    /\ trace' = Append(trace, "log_close")
    /\ pc' = IF exc = "none" THEN "stop_msg"
             ELSE IF exc = "Exception" THEN "except"
             ELSE FinallyEntry
    /\ UNCHANGED << cfgVars, sigVars, serVars, locVars, outVars, exc, clock,
                    last_activity, nreads, script, hist >>

\* backend: the close flushes the buffer, the flush raises; the file is closed
\* all the same and what was buffered is lost.
WithExitFail ==
    /\ pc = "with_exit"
    /\ logBuf # << >>
    /\ logState' = "closed"
    /\ logBuf' = << >>
    /\ trace' = Append(trace, "log_close")
    /\ exc' = "Exception"
    /\ pc' = "except"
    /\ UNCHANGED << cfgVars, sigVars, serVars, logDisk, locVars, outVars,
                    clock, last_activity, nreads, script, hist >>

\* except Exception as e: the error is printed with its traceback.
Except ==
    /\ pc = "except"
    /\ reported' = reported + 1
    /\ exc' = "none"
    /\ pc' = FinallyEntry
    /\ UNCHANGED << cfgVars, sigVars, serVars, logVars, locVars, console,
                    stopPrinted, exitStatus, clock, last_activity, nreads,
                    script, trace, hist >>

\* raspberrypi finally: if log_file: log_file.close()
FinLogOk ==
    /\ pc = "fin_log"
    /\ IF logState = "open"
          THEN /\ logState' = "closed"
               /\ logDisk' = logDisk \o logBuf
               /\ logBuf' = << >>
               /\ trace' = Append(trace, "log_close")
          ELSE UNCHANGED << logVars, trace >>
    /\ pc' = "fin_ser"
    /\ UNCHANGED << cfgVars, sigVars, serVars, locVars, outVars, exc, clock,
                    last_activity, nreads, script, hist >>

\* raspberrypi finally: log_file.close() raises while flushing the buffer.  The
\* exception leaves the finally block: ser.close() is not reached and nothing
\* catches it.
FinLogFail ==
    /\ pc = "fin_log"
    /\ logState = "open"
    /\ logBuf # << >>
    /\ logState' = "closed"
    /\ logBuf' = << >>
    /\ trace' = Append(trace, "log_close")
    /\ exc' = "Exception"
    /\ exitStatus' = 1
    /\ pc' = "crashed"
    /\ UNCHANGED << cfgVars, sigVars, serVars, logDisk, locVars, console,
                    reported, stopPrinted, clock, last_activity, nreads, script,
                    hist >>

\* finally: if 'ser' in locals() and ser.is_open: ser.close(); then the function
\* returns, or the pending KeyboardInterrupt goes on to end the process.
FinSer ==
    /\ pc = "fin_ser"
    /\ IF serState = "open"
          THEN /\ serState' = "closed"
               /\ trace' = Append(trace, "ser_close")
          ELSE UNCHANGED << serState, trace >>
    /\ pc' = IF exc = "none" THEN "done" ELSE "crashed"
    /\ exitStatus' = IF exc = "none" THEN 0 ELSE 1
    /\ UNCHANGED << cfgVars, sigVars, coalescing, logVars, locVars, console,
                    reported, stopPrinted, exc, clock, last_activity, nreads,
                    script, hist >>

----------------------------------------------------------------------------
(* The environment: signals and the clock *)

\* handle_sigint: a signal whose handler is installed clears the flag.
HandleSigint ==
    /\ serState = "open"
    /\ ~Stopped
    /\ intHandler \/ termHandler
    /\ running' = FALSE
    /\ UNCHANGED << cfgVars, intHandler, termHandler, serVars, logVars,
                    locVars, outVars, pc, exc, clock, last_activity, nreads,
                    script, trace, hist >>

\* SIGINT before line 125 has run: Python raises KeyboardInterrupt, which
\* `except Exception` does not catch.
SigIntDefault ==
    /\ serState = "open"
    /\ ~Stopped
    /\ ~intHandler
    /\ exc' = "KeyboardInterrupt"
    /\ pc' = IF pc \in { "fin_log", "fin_ser" } THEN "crashed" ELSE FinallyEntry
    /\ exitStatus' = IF pc \in { "fin_log", "fin_ser" } THEN 1 ELSE exitStatus
    /\ UNCHANGED << cfgVars, sigVars, serVars, logVars, locVars, console,
                    reported, stopPrinted, clock, last_activity, nreads, script,
                    trace, hist >>

\* SIGTERM before line 126 has run: the default action ends the process at
\* once; no except or finally block runs.
SigTermDefault ==
    /\ serState = "open"
    /\ ~Stopped
    /\ ~termHandler
    /\ pc' = "killed"
    /\ exitStatus' = 143
    /\ UNCHANGED << cfgVars, sigVars, serVars, logVars, locVars, console,
                    reported, stopPrinted, exc, clock, last_activity, nreads,
                    script, trace, hist >>

\* Time passes.
Tick ==
    /\ pc \in TickPcs
    /\ \E d \in TickSteps : /\ clock + d <= MaxClock
                            /\ clock' = clock + d
    /\ UNCHANGED << cfgVars, sigVars, serVars, logVars, locVars, outVars, pc,
                    exc, last_activity, nreads, script, trace, hist >>

----------------------------------------------------------------------------
(* The specification *)

Monitor ==
    \/ OpenSerOk \/ OpenSerFail \/ ConfigureOk \/ ConfigureFail
    \/ InstallInt \/ InstallTerm \/ InitActivity
    \/ OpenLogOk \/ OpenLogFail \/ HeaderOk \/ HeaderFail
    \/ WhileContinue \/ WhileExit \/ ReadOk \/ ReadFail
    \/ FramePrint \/ FrameLogOk \/ FrameLogFail \/ FrameActivity
    \/ IdleCheck \/ IdleMsg \/ IdleLogOk \/ IdleLogFail \/ IdleActivity
    \/ StopMsg \/ Footer \/ WithExitOk \/ WithExitFail \/ Except
    \/ FinLogOk \/ FinLogFail \/ FinSer

Next ==
    \/ Monitor
    \/ HandleSigint \/ SigIntDefault \/ SigTermDefault
    \/ Tick

Spec == Init /\ [][Next]_vars

\* The steps of the monitor are taken as long as one is possible: the
\* interpreter runs on, and a read that was issued returns or raises.
FairSpec == Spec /\ WF_vars(Monitor)

----------------------------------------------------------------------------
(* The scenario of section 8: two full frames, 20 seconds of silence with a *)
(* zero-length read every silence timeout, then the 8 bytes HELLOXYZ.       *)

Hello == << 72, 69, 76, 76, 79, 88, 89, 90 >>

SilenceDs == 20 * DsPerSecond

SilentReads == SilenceDs \div VTIME

ScenarioScript ==
    << Full16, Full16 >> \o [i \in 1..SilentReads |-> << >>] \o << Hello >>

\* VMIN bytes are released at once; anything shorter is released by the
\* silence timeout VTIME.
ReadTime(d) == IF Len(d) >= VMIN THEN 0 ELSE VTIME

InitScenario ==
    /\ variant \in { "backend", "raspberrypi" }
    /\ logging = TRUE
    /\ hasTermios = TRUE
    /\ script = ScenarioScript
    /\ budget = Len(ScenarioScript)
    /\ InitCommon

ScenRead ==
    /\ script # << >>
    /\ ReadReturn(Head(script), ReadTime(Head(script)))
    /\ script' = Tail(script)

\* The operator interrupts once the last frame has been recorded.
ScenCancel ==
    /\ script = << >>
    /\ pc = "while"
    /\ HandleSigint

NextScenario ==
    \/ OpenSerOk \/ ConfigureOk \/ InstallInt \/ InstallTerm \/ InitActivity
    \/ OpenLogOk \/ HeaderOk \/ WhileContinue \/ WhileExit \/ ScenRead
    \/ FramePrint \/ FrameLogOk \/ FrameActivity
    \/ IdleCheck \/ IdleMsg \/ IdleLogOk \/ IdleActivity
    \/ StopMsg \/ Footer \/ WithExitOk \/ FinLogOk \/ FinSer
    \/ ScenCancel

SpecScenario == InitScenario /\ [][NextScenario]_vars

----------------------------------------------------------------------------
(* Operators the properties use *)

Count(seq, k) == Cardinality({ i \in DOMAIN seq : seq[i] = k })

CountKind(seq, k) == Cardinality({ i \in DOMAIN seq : seq[i].kind = k })

IsEntry(r) == r.kind \in { "frame", "idle" }

\* Everything written to the log so far, flushed or not.
LogAll == logDisk \o logBuf

\* The frame records and idle notices of a log or of the console.
Entries(seq) == SelectSeq(seq, IsEntry)

\* The records without their written timestamps, which differ in precision
\* between the console and the log.
Unstamped(seq) == [i \in DOMAIN seq |-> [seq[i] EXCEPT !.stamp = 0]]

Kinds(seq) == [i \in DOMAIN seq |-> seq[i].kind]

MaxOf(S) == CHOOSE x \in S : \A y \in S : y <= x

IdlePcs == { "idle_check", "idle_msg", "idle_log", "idle_activity" }

\* Idle notices of seq are spaced by the threshold, and each comes more than
\* the threshold after the frame before it, or after line 128 / 110, where
\* last_activity is first set, if there is none.
RateLimited(seq) ==
    \A i \in DOMAIN seq :
        seq[i].kind = "idle" =>
            /\ \A j \in 1..(i - 1) :
                   seq[j].kind = "idle" => seq[i].at - seq[j].at >= IdleThreshold
            /\ LET before == { j \in 1..(i - 1) : seq[j].kind = "frame" }
               IN  IF before = {}
                      THEN seq[i].at - hist.loopStartAt > IdleThreshold
                      ELSE seq[i].at - seq[MaxOf(before)].at > IdleThreshold

----------------------------------------------------------------------------
(* C1: while a zero-length read is being handled no frame record is added  *)
(* to the console or the log, and an idle notice is added only when the    *)
(* clock is more than 10 seconds past last_activity.                       *)

C1_ZeroLengthRead ==
    [][ (data = << >> /\ pc \in IdlePcs) =>
          /\ CountKind(console', "frame") = CountKind(console, "frame")
          /\ CountKind(logDisk' \o logBuf', "frame") = CountKind(LogAll, "frame")
          /\ ( \/ CountKind(console', "idle") > CountKind(console, "idle")
               \/ CountKind(logDisk' \o logBuf', "idle") > CountKind(LogAll, "idle") )
             => clock - last_activity > IdleThreshold ]_vars

C1_Witness ==
    /\ data = << >>
    /\ pc = "idle_activity"
    /\ CountKind(console, "idle") >= 1
    /\ CountKind(logDisk, "idle") >= 1

(* C2: any two idle notices are at least 10 seconds apart, and every idle  *)
(* notice comes more than 10 seconds after the latest frame before it (or  *)
(* after the start, where last_activity is initialised), on the console    *)
(* and in the log.                                                         *)

C2_IdleRateLimited == RateLimited(console) /\ RateLimited(LogAll)

C2_Witness ==
    /\ CountKind(console, "idle") >= 2
    /\ CountKind(logDisk, "idle") >= 2

(* C3 as stated: at the end of the scenario the log holds two 16-byte      *)
(* frame records, exactly two idle notices at least 10 seconds apart, and  *)
(* the 8-byte record of HELLOXYZ.                                          *)

C3_TwoIdleNotices ==
    pc = "done" =>
        LET e == Entries(logDisk)
        IN  /\ Kinds(e) = << "frame", "frame", "idle", "idle", "frame" >>
            /\ e[1].n = ReadSize /\ e[2].n = ReadSize
            /\ e[4].at - e[3].at >= IdleThreshold
            /\ e[5].n = Len(Hello) /\ e[5].ascii = Hello

(* C3 amended: at the end of the scenario the log holds two 16-byte frame  *)
(* records, exactly one idle notice, which comes more than 10 seconds      *)
(* after the second frame, and the 8-byte record of HELLOXYZ.              *)

C3_OneIdleNotice ==
    pc = "done" =>
        LET e == Entries(logDisk)
        IN  /\ Kinds(e) = << "frame", "frame", "idle", "frame" >>
            /\ e[1].n = ReadSize /\ e[2].n = ReadSize
            /\ e[3].at - e[2].at > IdleThreshold
            /\ e[4].n = Len(Hello) /\ e[4].ascii = Hello
            /\ Unstamped(Entries(console)) = Unstamped(e)

C3_Witness ==
    /\ pc = "done"
    /\ script = << >>
    /\ nreads = Len(ScenarioScript)
    /\ CountKind(logDisk, "footer") = 1

(* C4: once the flag is cleared at most one ser.read(16) completes, no     *)
(* read is issued after the loop test has seen the flag cleared, and the   *)
(* monitor stops.                                                          *)

C4_CancelStops ==
    /\ [](hist.readsAfterCancel <= 1)
    /\ [](hist.readsAfterObserved = 0)
    /\ [](hist.observed => pc \notin { "while", "read" })
    /\ (~running ~> Stopped)

C4_Witness ==
    /\ hist.readsAfterCancel = 1
    /\ hist.observed
    /\ pc = "done"

(* C5: on every exit on which the device was opened it is closed exactly   *)
(* once, and the log file, if it was opened, is closed exactly once.       *)

C5_ClosedExactlyOnce ==
    (Stopped /\ Count(trace, "ser_open") > 0) =>
        /\ Count(trace, "ser_close") = 1
        /\ Count(trace, "log_open") > 0 => Count(trace, "log_close") = 1

(* C6: whenever the log file is closed after the loop was entered the      *)
(* footer has been written to it, after a cancellation and after a failing *)
(* read or log write alike.                                                *)

C6_FooterBeforeClose ==
    [][ (nreads > 0 /\ logState = "open" /\ logState' = "closed") =>
            CountKind(LogAll, "footer") = 1 ]_vars

(* C7: the log file is never opened before the device is open, and where   *)
(* both were opened the device is closed only after the log file has been  *)
(* closed.                                                                 *)

C7_AcquireReleaseOrder ==
    /\ \A i \in DOMAIN trace :
           trace[i] = "log_open" => \E j \in 1..(i - 1) : trace[j] = "ser_open"
    /\ \A i \in DOMAIN trace :
           (trace[i] = "ser_close" /\ \E k \in 1..(i - 1) : trace[k] = "log_open")
               => \E j \in 1..(i - 1) : trace[j] = "log_close"

C7_Witness ==
    trace = << "ser_open", "log_open", "log_close", "ser_close" >>

(* C8: when opening the device fails no log file is created, no read is    *)
(* issued, no frame or idle record is produced, the error is reported and  *)
(* the monitor stops.                                                      *)

C8_OpenFailure ==
    /\ [](hist.openFailed =>
            /\ logState = "none"
            /\ LogAll = << >>
            /\ Count(trace, "log_open") = 0
            /\ nreads = 0
            /\ console = << >>
            /\ pc \in { "except", "fin_log", "fin_ser", "done" }
            /\ reported = IF pc = "except" THEN 0 ELSE 1)
    /\ (hist.openFailed ~> pc = "done")

C8_Witness ==
    /\ hist.openFailed
    /\ pc = "done"
    /\ reported = 1
    /\ trace = << >>

(* C9: when opening the device fails the process ends with a non-zero      *)
(* exit status.                                                            *)

C9_OpenFailureExitsNonZero ==
    (hist.openFailed /\ Stopped) => exitStatus # 0

(* C10: after a log write has failed on a frame no read is issued, no      *)
(* later record reaches the console or the log, and once the monitor has   *)
(* stopped the failure has been reported and the device is closed.         *)

C10_LogWriteFailureStops ==
    hist.writeFailedFrame > 0 =>
        /\ nreads = hist.readsAtFail
        /\ pc # "read"
        /\ Len(console) = hist.consoleAtFail
        /\ CountKind(LogAll, "frame") <= hist.writeFailedFrame
        /\ Stopped => (reported >= 1 /\ serState = "closed")

(* C11: once ser.read has raised no further read is issued, no frame or   *)
(* idle record is added to the console or the log, the error is reported,  *)
(* and the monitor ends with the log file (if opened) and the device       *)
(* closed.                                                                 *)

C11_ReadFailureStops ==
    /\ [](hist.readFailed =>
            /\ nreads = hist.readsAtReadFail
            /\ pc \in { "with_exit", "except", "fin_log", "fin_ser", "done" }
            /\ Len(console) = hist.consoleAtReadFail
            /\ Len(LogAll) = hist.logAtReadFail
            /\ pc \in { "fin_log", "fin_ser", "done" } => reported = 1
            /\ pc = "done" => (serState = "closed" /\ logState # "open"))
    /\ (hist.readFailed ~> pc = "done")

C11_Witness ==
    /\ hist.readFailed
    /\ pc = "done"
    /\ serState = "closed"
    /\ logState = "closed"
    /\ CountKind(logDisk, "frame") >= 1

----------------------------------------------------------------------------
(* A quiet line: the statements of the monitor take no time, a read on a   *)
(* silent line returns empty after the silence timeout when VMIN/VTIME are *)
(* applied and does not return otherwise, and no byte arrives once the     *)
(* cancellation has been requested.                                        *)

\* Frames that arrive before the cancellation is requested.
MaxFrames == 1

\* Enough reads for the silence to pass the idle threshold.
QuietReads == IdleThreshold \div VTIME + 2

InitQuiet ==
    /\ \E c \in Configs : /\ variant = c.v
                          /\ logging = c.l
                          /\ hasTermios = c.t
    /\ budget = QuietReads
    /\ script = << >>
    /\ InitCommon

\* handle_sigint, with the time of the first request kept.
QuietCancel ==
    /\ serState = "open"
    /\ ~Stopped
    /\ intHandler \/ termHandler
    /\ running' = FALSE
    /\ hist' = [hist EXCEPT !.cancelAt = IF @ < 0 THEN clock ELSE @]
    /\ UNCHANGED << cfgVars, intHandler, termHandler, serVars, logVars,
                    locVars, outVars, pc, exc, clock, last_activity, nreads,
                    script, trace >>

\* The silence timeout fires: ser.read(16) returns empty after VTIME.
QuietTimeout ==
    /\ coalescing
    /\ ReadReturn(<< >>, VTIME)
    /\ UNCHANGED script

\* Bytes arrive before any cancellation was requested.
QuietData ==
    /\ hist.cancelAt < 0
    /\ hist.framesRead < MaxFrames
    /\ \E d \in ReadResults \ { << >> } : ReadReturn(d, ReadTime(d))
    /\ UNCHANGED script

\* Without VMIN/VTIME the read stays blocked while time passes.
BlockedTick ==
    /\ ~coalescing
    /\ pc = "read"
    /\ Tick

QuietMonitor ==
    \/ OpenSerOk \/ ConfigureOk \/ InstallInt \/ InstallTerm \/ InitActivity
    \/ OpenLogOk \/ HeaderOk \/ WhileContinue \/ WhileExit \/ QuietTimeout
    \/ FramePrint \/ FrameLogOk \/ FrameActivity
    \/ IdleCheck \/ IdleMsg \/ IdleLogOk \/ IdleActivity
    \/ StopMsg \/ Footer \/ WithExitOk \/ FinLogOk \/ FinSer

NextQuiet == QuietMonitor \/ QuietData \/ QuietCancel \/ BlockedTick

SpecQuiet == InitQuiet /\ [][NextQuiet]_vars /\ WF_vars(QuietMonitor)

\* VMIN/VTIME are applied in this run.
Coalesced == variant = "raspberrypi" \/ hasTermios

(* C12 as stated: in every platform branch, once cancellation has been     *)
(* requested the monitor has stopped by the time more than one silence     *)
(* timeout (0.5 s) has passed, although no byte arrives.                   *)

C12_StopsWithinTimeout ==
    (hist.cancelAt >= 0 /\ clock - hist.cancelAt > VTIME) => Stopped

(* C12 amended: where VMIN/VTIME are applied, once cancellation has been   *)
(* requested the monitor stops, and has stopped by the time more than one  *)
(* silence timeout has passed.                                             *)

C12_StopsWithinTimeoutCoalesced ==
    /\ []((Coalesced /\ hist.cancelAt >= 0 /\ clock - hist.cancelAt > VTIME)
              => Stopped)
    /\ ((Coalesced /\ hist.cancelAt >= 0) ~> Stopped)

C12_Witness ==
    /\ Coalesced
    /\ hist.cancelAt >= 0
    /\ hist.readsAfterCancel = 1
    /\ clock = hist.cancelAt + VTIME
    /\ pc = "done"

----------------------------------------------------------------------------
(* Timestamps as written in the log *)

FooterIn(seq) == \E i \in DOMAIN seq : seq[i].kind = "footer"

\* C13 as stated: in a log file that contains a footer, header start time
\* <= the timestamp of every frame record <= footer end time, the three
\* compared as they are written (seconds, milliseconds, seconds).
C13_StampsOrdered ==
    FooterIn(logDisk) =>
        \A i, j, k \in DOMAIN logDisk :
            (logDisk[i].kind = "header" /\ logDisk[j].kind = "frame"
                /\ logDisk[k].kind = "footer")
            => (logDisk[i].stamp <= logDisk[j].stamp
                /\ logDisk[j].stamp <= logDisk[k].stamp)

\* C13 amended: header start time <= the timestamp of every frame record, and
\* every frame timestamp is less than one second after the footer end time
\* (the footer drops the fraction of the second the frame record keeps).
C13_StampsOrderedToTheSecond ==
    \A i, j \in DOMAIN LogAll :
        /\ (LogAll[i].kind = "header" /\ LogAll[j].kind = "frame")
              => LogAll[i].stamp <= LogAll[j].stamp
        /\ (LogAll[i].kind = "frame" /\ LogAll[j].kind = "footer")
              => LogAll[i].stamp < LogAll[j].stamp + MsPerSecond

\* A closed log with a footer, whose header and frame record were both
\* written in the second half of a second.
C13_Witness ==
    /\ logState = "closed"
    /\ FooterIn(logDisk)
    /\ \E i, j \in DOMAIN logDisk :
          /\ logDisk[i].kind = "header"
          /\ logDisk[i].at % DsPerSecond # 0
          /\ logDisk[j].kind = "frame"
          /\ logDisk[j].at % DsPerSecond # 0

----------------------------------------------------------------------------
(* Flush on write *)

\* C14: whenever ser.read(16) is called nothing is left in the process
\* buffer, and once the loop has seen the cancellation (up to and at STOPPED)
\* no header, frame record or idle notice is left there: only the footer
\* waits for the close.
C14_FlushedBeforeRead ==
    /\ pc = "read" => logBuf = << >>
    /\ hist.observed => \A i \in DOMAIN logBuf : logBuf[i].kind = "footer"

\* The third read is called with the header, a frame record and an idle
\* notice written.
C14_Witness ==
    /\ pc = "read"
    /\ logState = "open"
    /\ Kinds(logDisk) = << "header", "frame", "idle" >>

----------------------------------------------------------------------------
(* One frame of arbitrary bytes: the renderer *)

\* Longest block built from every combination of the sample bytes.
MaxBlock == 2

\* Bytes on both sides of every boundary of the renderer: the control range,
\* the ends of the printable range, '.', DEL, and the high half.
ByteSamples == { 0, 31, 32, 46, 74, 126, 127, 171, 255 }

SeqsOver(S, n) == UNION { [1..k -> S] : k \in 1..n }

\* One block of every length up to ReadSize, from two starting bytes.
Ramps == { [i \in 1..n |-> (b + 37 * i) % 256] : n \in 1..ReadSize, b \in { 0, 90 } }

Blocks == SeqsOver(ByteSamples, MaxBlock) \cup Ramps

InitRender ==
    /\ \E c \in Configs : /\ variant = c.v
                          /\ logging = c.l
                          /\ hasTermios = c.t
    /\ \E B \in Blocks : script = << B >>
    /\ budget = 1
    /\ InitCommon

NextRender ==
    \/ OpenSerOk \/ ConfigureOk \/ InstallInt \/ InstallTerm \/ InitActivity
    \/ OpenLogOk \/ HeaderOk \/ WhileContinue \/ WhileExit \/ ScenRead
    \/ FramePrint \/ FrameLogOk \/ FrameActivity
    \/ StopMsg \/ Footer \/ WithExitOk \/ FinLogOk \/ FinSer
    \/ ScenCancel

SpecRender == InitRender /\ [][NextRender]_vars

FramesOf(seq) == SelectSeq(seq, LAMBDA r : r.kind = "frame")

\* bytes.fromhex for upper-case digits.
HexVal(c) == IF c >= 48 /\ c <= 57 THEN c - 48 ELSE c - 55

FromHex(h) == [i \in 1..(Len(h) \div 2) |-> 16 * HexVal(h[2 * i - 1]) + HexVal(h[2 * i])]

HexChars == (48..57) \cup (65..70)

\* The frame records of seq, each with the block read for it.
RenderedPairs(seq) ==
    { << FramesOf(seq)[i], hist.frames[i] >> : i \in DOMAIN FramesOf(seq) }

\* C15: the hex line of every frame record, printed or logged, of a block B
\* of 1..16 bytes has length 2 * Len(B), only the characters 0-9 and A-F, and
\* decodes back to B.
C15_HexRoundTrip ==
    \A p \in RenderedPairs(console) \cup RenderedPairs(LogAll) :
        /\ Len(p[2]) \in 1..ReadSize
        /\ Len(p[1].hex) = 2 * Len(p[2])
        /\ \A i \in DOMAIN p[1].hex : p[1].hex[i] \in HexChars
        /\ FromHex(p[1].hex) = p[2]

\* A full block whose hex line has a letter digit has been logged.
C15_Witness ==
    \E p \in RenderedPairs(logDisk) :
        /\ Len(p[2]) = ReadSize
        /\ \E i \in DOMAIN p[1].hex : p[1].hex[i] \in 65..70
        /\ \E i \in DOMAIN p[1].hex : p[1].hex[i] \in 48..57

\* C16: the ASCII line of every frame record of a block B has length Len(B);
\* its i-th character is chr(B[i]) when 32 <= B[i] <= 126, and otherwise it is
\* '.', which is then not chr(B[i]).
C16_AsciiLine ==
    \A p \in RenderedPairs(console) \cup RenderedPairs(LogAll) :
        /\ Len(p[1].ascii) = Len(p[2])
        /\ \A i \in DOMAIN p[2] :
              IF 32 <= p[2][i] /\ p[2][i] <= 126
                 THEN p[1].ascii[i] = p[2][i]
                 ELSE p[1].ascii[i] = 46 /\ p[1].ascii[i] # p[2][i]

\* The block '~' DEL has been logged as "~.".
C16_Witness ==
    \E p \in RenderedPairs(logDisk) :
        /\ p[2] = << 126, 127 >>
        /\ p[1].ascii = << 126, 46 >>

----------------------------------------------------------------------------
(* The log as a record of the line *)

\* No exception has been raised and the process has not been killed.
NoFailure == exc = "none" /\ reported = 0 /\ pc \notin { "crashed", "killed" }

\* The frame just read is not recorded yet.
FrameInFlight == pc \in { "frame_print", "frame_log" }

\* C17: with logging enabled and no failure, the frame records of the log are,
\* in order, one per non-empty result of ser.read(16), each with that
\* result's byte count and bytes, partial blocks included, the frame in hand
\* excepted until it is written; and in any case no frame record is without
\* its read result.
C17_FaithfulRecord ==
    /\ \A p \in RenderedPairs(LogAll) :
          /\ p[1].n = Len(p[2])
          /\ p[1].n \in 1..ReadSize
          /\ FromHex(p[1].hex) = p[2]
    /\ Len(FramesOf(LogAll)) <= Len(hist.frames)
    /\ (logging /\ NoFailure) =>
          Len(FramesOf(LogAll)) =
              Len(hist.frames) - (IF FrameInFlight THEN 1 ELSE 0)

\* A full block, a partial block and a full block were read and the closed
\* log holds the three records.
C17_Witness ==
    /\ pc = "done"
    /\ NoFailure
    /\ hist.frames = << Full16, Partial, Full16 >>
    /\ Kinds(logDisk) = << "header", "frame", "frame", "frame", "footer" >>

----------------------------------------------------------------------------
(* A zero-length read inside the idle threshold *)

\* C18: when a zero-length read is handled 10 seconds or less after
\* last_activity, the step leaves last_activity, the log and the console as
\* they were, reports no error and returns to the loop test; and the loop
\* test leads to another ser.read(16) when the flag is still set and out of
\* the loop when it is not.
C18_QuietTimeoutRead ==
    /\ [][ (pc = "idle_check" /\ data = << >>
              /\ clock - last_activity <= IdleThreshold) =>
              /\ last_activity' = last_activity
              /\ logDisk' = logDisk
              /\ logBuf' = logBuf
              /\ console' = console
              /\ reported' = reported
              /\ exc' = exc
              /\ pc' \in { "idle_check", "while" } ]_vars
    /\ [][ (pc = "while" /\ pc' # "while") =>
              IF running THEN pc' = "read"
                         ELSE pc' \in { "footer", "stop_msg" } ]_vars

\* A zero-length read exactly 10 seconds after last_activity has been
\* handled and the loop is back at its test with nothing printed or logged
\* since the header.
C18_Witness ==
    /\ pc = "while"
    /\ data = << >>
    /\ nreads = 1
    /\ clock - last_activity = IdleThreshold
    /\ console = << >>
    /\ Kinds(LogAll) = << "header" >>
    /\ NoFailure

----------------------------------------------------------------------------
(* The shape of the log *)

\* A header first and nowhere else, a footer last or not at all, frame
\* records and idle notices between them.
Shape(seq) ==
    \A i \in DOMAIN seq :
        /\ seq[i].kind \in { "header", "frame", "idle", "footer" }
        /\ seq[i].kind = "header" <=> i = 1
        /\ seq[i].kind = "footer" => i = Len(seq)

IsPrefix(a, b) == Len(a) <= Len(b) /\ SubSeq(b, 1, Len(a)) = a

\* C19: the file, and the file with what is still buffered, always has the
\* shape header, frame records and idle notices, at most one footer; the
\* file only grows at its end, and once the footer is written no record is
\* written after it.
C19_LogShape ==
    /\ [](Shape(logDisk) /\ Shape(LogAll))
    /\ [][ /\ IsPrefix(logDisk, logDisk')
           /\ FooterIn(LogAll) => IsPrefix(logDisk' \o logBuf', LogAll) ]_vars

\* A closed file with a header, a frame record, an idle notice and the footer.
C19_Witness ==
    /\ logState = "closed"
    /\ logBuf = << >>
    /\ Kinds(logDisk) = << "header", "frame", "idle", "footer" >>

----------------------------------------------------------------------------
(* The frame in flight at the cancellation *)

LastOf(seq) == seq[Len(seq)]

\* C20: once the loop has seen the cancellation, every frame read, the one
\* returned by the read that was in flight when the flag was cleared
\* included, is on the console and, with logging, in the file before any
\* footer; while that frame is being processed the flag is not looked at.
C20_NoFrameDroppedAtShutdown ==
    /\ [](hist.observed =>
            /\ Len(FramesOf(console)) = Len(hist.frames)
            /\ logging => /\ Len(FramesOf(logDisk)) = Len(hist.frames)
                          /\ \A p \in RenderedPairs(logDisk) :
                                FromHex(p[1].hex) = p[2])
    /\ [](FooterIn(LogAll) =>
            (hist.observed /\ Len(FramesOf(LogAll)) = Len(hist.frames)))
    /\ [][ (~running /\ pc \in { "frame_print", "frame_log" })
              => pc' \notin { "while", "footer", "stop_msg" } ]_vars

\* The flag was cleared during a read, the read returned a frame, and the
\* closed file ends with that frame's record and the footer.
C20_Witness ==
    /\ pc = "done"
    /\ hist.readsAfterCancel = 1
    /\ hist.frames # << >>
    /\ LastOf(hist.frames) = data
    /\ LastOf(FramesOf(console)).n = Len(data)
    /\ Len(logDisk) >= 3
    /\ logDisk[Len(logDisk)].kind = "footer"
    /\ logDisk[Len(logDisk) - 1].kind = "frame"
    /\ FromHex(logDisk[Len(logDisk) - 1].hex) = data

----------------------------------------------------------------------------
(* The console and the log side by side *)

\* C21: with a log, the frame records and idle notices in the file are a
\* prefix of those printed to the console (the written timestamps apart,
\* which differ in precision), at most one shorter; and with no failure they
\* are the same except while the entry just printed is being written.
C21_LogPrefixOfConsole ==
    logging =>
        /\ IsPrefix(Unstamped(Entries(logDisk)), Unstamped(Entries(console)))
        /\ IsPrefix(Unstamped(Entries(LogAll)), Unstamped(Entries(console)))
        /\ Len(Entries(console)) - Len(Entries(logDisk)) <= 1
        /\ (NoFailure /\ pc \notin { "frame_log", "idle_log" })
              => Len(Entries(console)) = Len(Entries(logDisk))

\* The write of the second entry failed and the close lost it: the console
\* has one entry more than the closed file.
C21_Witness ==
    /\ logging
    /\ Stopped
    /\ logState = "closed"
    /\ Len(Entries(logDisk)) >= 1
    /\ Len(Entries(console)) = Len(Entries(logDisk)) + 1

----------------------------------------------------------------------------
(* monitor_serial called again in the same process *)

\* Calls of monitor_serial in one process.
MaxCalls == 2

\* The locals of a call that has just been entered; the log of the call is a
\* new file, and the console output is counted from the call.
EnterLocals ==
    /\ pc' = "open_ser"
    /\ exc' = "none"
    /\ serState' = "none"
    /\ coalescing' = FALSE
    /\ logState' = "none"
    /\ logBuf' = << >>
    /\ logDisk' = << >>
    /\ console' = << >>
    /\ last_activity' = 0
    /\ data' = << >>
    /\ timestamp_full' = 0
    /\ nreads' = 0
    /\ trace' = << >>
    /\ reported' = 0
    /\ stopPrinted' = FALSE
    /\ exitStatus' = -1

EnterCall == EnterLocals /\ hist' = [NoHist EXCEPT !.calls = hist.calls + 1]

\* monitor_serial with `running = True` as its first statement.
Recall_ResetFlag ==
    /\ pc = "done"
    /\ ~running
    /\ hist.calls < MaxCalls
    /\ EnterCall
    /\ running' = TRUE
    /\ UNCHANGED << cfgVars, intHandler, termHandler, clock, script >>

\* monitor_serial is called again after a call that was cancelled has
\* returned: `global running` is declared and the flag is left as it is; the
\* handlers installed by the first call stay installed.
Recall ==
    /\ pc = "done"
    /\ ~running
    /\ hist.calls < MaxCalls
    /\ EnterCall
    /\ UNCHANGED << cfgVars, sigVars, clock, script >>

NextRecall == Next \/ Recall

SpecRecall == Init /\ [][NextRecall]_vars

\* C22: running never goes back to TRUE, and a call entered after a
\* cancellation issues no read and prints and logs no frame record or idle
\* notice; when it returns without an error it has opened the device, and
\* the log when logging, written the header and the footer, and closed what
\* it opened.
C22_SecondCallReadsNothing ==
    /\ [][ ~running => ~running' ]_vars
    /\ [](hist.calls > 1 =>
            /\ ~running
            /\ nreads = 0
            /\ pc # "read"
            /\ hist.frames = << >>
            /\ Entries(console) = << >>
            /\ Entries(LogAll) = << >>
            /\ (pc = "done" /\ reported = 0) =>
                  /\ serState = "closed"
                  /\ logBuf = << >>
                  /\ IF logging
                        THEN /\ logState = "closed"
                             /\ Kinds(logDisk) = << "header", "footer" >>
                             /\ trace = << "ser_open", "log_open",
                                           "log_close", "ser_close" >>
                        ELSE /\ logState = "none"
                             /\ logDisk = << >>
                             /\ trace = << "ser_open", "ser_close" >>)

\* A second call has returned with a log that holds a header and a footer.
C22_Witness ==
    /\ hist.calls = 2
    /\ pc = "done"
    /\ reported = 0
    /\ nreads = 0
    /\ Kinds(logDisk) = << "header", "footer" >>
    /\ serState = "closed"

----------------------------------------------------------------------------
(* Two runs on the same inputs, one after the other *)

\* Reads in a run.
MaxScript == 3

\* A read result with the time that passes, as the program sees it, between
\* the call of ser.read(16) and its return.
TwinInputs ==
    { [d |-> << >>,   wait |-> VTIME],
      [d |-> << >>,   wait |-> IdleThreshold + VTIME],
      [d |-> Partial, wait |-> VTIME],
      [d |-> Full16,  wait |-> 0] }

TwinScripts == UNION { [1..k -> TwinInputs] : k \in 0..MaxScript }

\* What a finished run leaves to compare the next run with.
Observed ==
    [ entries  |-> Entries(console),
      logged   |-> Entries(logDisk),
      footer   |-> FooterIn(logDisk),
      activity |-> hist.activity,
      nreads   |-> nreads,
      trace    |-> trace,
      reported |-> reported,
      pc       |-> pc ]

TwinRead ==
    /\ script # << >>
    /\ ReadReturn(Head(script).d, Head(script).wait)
    /\ script' = Tail(script)

\* The cancellation arrives during the last read of the script, or before
\* the first loop test when the script is empty.
TwinCancel ==
    /\ running
    /\ \/ hist.script0 = << >> /\ pc = "while"
       \/ pc = "read" /\ Len(script) = 1
    /\ HandleSigint

\* The second run starts: a new process with the same inputs and no logfile.
RerunWithoutLog ==
    /\ pc = "done"
    /\ hist.first = << >>
    /\ EnterLocals
    /\ logging' = FALSE
    /\ running' = TRUE
    /\ intHandler' = FALSE
    /\ termHandler' = FALSE
    /\ clock' = 0
    /\ script' = hist.script0
    /\ hist' = [NoHist EXCEPT !.script0 = hist.script0,
                              !.first = << Observed >>]
    /\ UNCHANGED << variant, hasTermios, budget >>

InitTwinLog ==
    /\ variant = "raspberrypi"
    /\ logging = TRUE
    /\ hasTermios = TRUE
    /\ script \in TwinScripts
    /\ budget = Len(script)
    /\ hist = [NoHist EXCEPT !.script0 = script]
    /\ InitLocals

NextTwinLog ==
    \/ OpenSerOk \/ ConfigureOk \/ InstallInt \/ InstallTerm \/ InitActivity
    \/ OpenLogOk \/ HeaderOk \/ WhileContinue \/ WhileExit \/ TwinRead
    \/ FramePrint \/ FrameLogOk \/ FrameActivity
    \/ IdleCheck \/ IdleMsg \/ IdleLogOk \/ IdleActivity
    \/ StopMsg \/ Footer \/ FinLogOk \/ FinSer
    \/ TwinCancel \/ RerunWithoutLog

SpecTwinLog == InitTwinLog /\ [][NextTwinLog]_vars

\* The second run has finished.
TwinDone == hist.first # << >> /\ pc = "done"

\* C23: the raspberrypi run without logfile never opens or writes a log, and
\* when it ends it has printed the same frame records and idle notices,
\* assigned the same values to last_activity and called ser.read(16) as
\* often as the run with logging on the same read results, clock readings
\* and cancellation point.
C23_LoggingIsAdditive ==
    /\ ~logging => /\ logState = "none"
                   /\ LogAll = << >>
                   /\ \A i \in DOMAIN trace : trace[i] \notin { "log_open", "log_close" }
    /\ TwinDone =>
          /\ Entries(console) = hist.first[1].entries
          /\ hist.activity = hist.first[1].activity
          /\ nreads = hist.first[1].nreads
          /\ reported = hist.first[1].reported
          /\ Unstamped(hist.first[1].logged) = Unstamped(Entries(console))

\* Both runs have ended after a frame, a silence with its idle notice and
\* another frame.
C23_Witness ==
    /\ TwinDone
    /\ ~logging
    /\ Kinds(Entries(console)) = << "frame", "idle", "frame" >>
    /\ Kinds(hist.first[1].logged) = << "frame", "idle", "frame" >>
    /\ nreads = MaxScript

----------------------------------------------------------------------------
(* The two variants on the same inputs *)

\* The failure a run meets, the same in both runs: the named call raises the
\* first time it is made.
Faults == { "none", "open_ser", "configure", "open_log", "header", "read",
            "frame_log", "idle_log", "close" }

Unless(f, A) == hist.fault # f /\ A

On(f, A) == hist.fault = f /\ A

\* The second run starts: a new process running the raspberrypi variant on
\* the same inputs, with logging.
RerunOtherVariant ==
    /\ Stopped
    /\ hist.first = << >>
    /\ EnterLocals
    /\ variant' = "raspberrypi"
    /\ running' = TRUE
    /\ intHandler' = FALSE
    /\ termHandler' = FALSE
    /\ clock' = 0
    /\ script' = hist.script0
    /\ hist' = [NoHist EXCEPT !.script0 = hist.script0,
                              !.fault = hist.fault,
                              !.first = << Observed >>]
    /\ UNCHANGED << logging, hasTermios, budget >>

InitTwinVariant ==
    /\ variant = "backend"
    /\ logging = TRUE
    /\ hasTermios = TRUE
    /\ script \in TwinScripts
    /\ budget = Len(script)
    /\ \E f \in Faults : hist = [NoHist EXCEPT !.script0 = script, !.fault = f]
    /\ InitLocals

NextTwinVariant ==
    \/ Unless("open_ser", OpenSerOk)   \/ On("open_ser", OpenSerFail)
    \/ Unless("configure", ConfigureOk) \/ On("configure", ConfigureFail)
    \/ InstallInt \/ InstallTerm \/ InitActivity
    \/ Unless("open_log", OpenLogOk)   \/ On("open_log", OpenLogFail)
    \/ Unless("header", HeaderOk)      \/ On("header", HeaderFail)
    \/ WhileContinue \/ WhileExit
    \/ Unless("read", TwinRead)        \/ On("read", ReadFail /\ UNCHANGED script)
    \/ FramePrint
    \/ Unless("frame_log", FrameLogOk) \/ On("frame_log", FrameLogFail)
    \/ FrameActivity \/ IdleCheck \/ IdleMsg
    \/ Unless("idle_log", IdleLogOk)   \/ On("idle_log", IdleLogFail)
    \/ IdleActivity \/ StopMsg \/ Footer
    \/ Unless("close", WithExitOk)     \/ On("close", WithExitFail)
    \/ Except
    \/ Unless("close", FinLogOk)       \/ On("close", FinLogFail)
    \/ FinSer
    \/ TwinCancel \/ RerunOtherVariant

SpecTwinVariant == InitTwinVariant /\ [][NextTwinVariant]_vars

\* The second run has stopped.
TwinStopped == hist.first # << >> /\ Stopped

\* C24 as stated: on the same read results, clock readings, failure and
\* cancellation point the raspberrypi run with logging ends with the same
\* frame records and idle notices in the file as the backend run, a footer
\* exactly when the backend run has one, and the same order of opening and
\* closing the device and the log.
C24_VariantsEquivalent ==
    TwinStopped =>
        /\ Entries(logDisk) = hist.first[1].logged
        /\ FooterIn(logDisk) = hist.first[1].footer
        /\ trace = hist.first[1].trace

====
